---- MODULE Spec2Model ----
(***************************************************************************)
(* The Adaptive Multi-Signal Retrain Controller (AMRC) of MeshOps and the  *)
(* JSON state file it persists its weights, threshold and last-retrain     *)
(* time in.                                                                *)
(*                                                                         *)
(* Floats are modelled as exact fixed-point integers in units of 1/Scale   *)
(* (Scale = 3000, so 0.4 is 1200 and 0.1/30 is 10); the one non-number a   *)
(* float can hold that matters here, NaN, is the value NaN, which the      *)
(* arithmetic below propagates the way IEEE 754 and numpy do.  Time is in  *)
(* minutes.  The file system is a directory of two names (the state file   *)
(* and its ".tmp" sibling) over inodes, so that an open file descriptor    *)
(* keeps writing to the file it opened after a rename.                     *)
(***************************************************************************)
EXTENDS Integers, Sequences, FiniteSets, TLC

VARIABLES
    cfg,        \* AMRCConfig and the variant of amrc.py that runs
    role,       \* per thread: the operations its caller invokes ({}: no such thread)
    files,      \* inode -> content (a state, Empty, Corrupt or Free)
    dir,        \* [path |-> inode or 0, tmp |-> inode or 0]
    now,        \* time.time(), in minutes
    store,      \* per process: "unbuilt", "ok", "none" (AMRC.state is None)
    lock,       \* per process: the thread that holds StateStore._lock, or 0
    pc,         \* per thread: where it is in its operation
    op,         \* per thread: the operation it is in ("none" between calls)
    arg,        \* per thread: the arguments of that operation
    st,         \* per thread: the state it read (get) or is writing (_write)
    kw,         \* per thread: the kwargs of its update()
    fd,         \* per thread: the inode its open(tmp, "w") holds, or 0
    attempt,    \* per thread: shutil.move attempts made by _write
    slept,      \* per thread: milliseconds slept by _write's retry loop
    res,        \* the latest return: who called what, and what came back
    env,        \* what the callers pass: the argument values explored
    quota,      \* what is left of each bound of the exploration
    hist        \* history (not program state): what was applied, what writers read

vars == <<cfg, role, files, dir, now, store, lock, pc, op, arg, st, kw, fd,
          attempt, slept, res, env, quota, hist>>

----------------------------------------------------------------------------
(* Fixed-point floats *)

Scale == 3 * 1000
NaN == 0 - 1000 * Scale

IsNaN(x) == x = NaN

FAdd(a, b) == IF IsNaN(a) \/ IsNaN(b) THEN NaN ELSE a + b
FSub(a, b) == IF IsNaN(a) \/ IsNaN(b) THEN NaN ELSE a - b
FMul(a, b) == IF IsNaN(a) \/ IsNaN(b) THEN NaN ELSE (a * b) \div Scale

\* A comparison with NaN is false.
FLe(a, b) == ~IsNaN(a) /\ ~IsNaN(b) /\ a <= b
FGt(a, b) == ~IsNaN(a) /\ ~IsNaN(b) /\ a > b

\* numpy.clip: NaN goes through, everything else is brought into [lo, hi].
Clip(x, lo, hi) ==
    IF IsNaN(x) THEN NaN ELSE IF x < lo THEN lo ELSE IF x > hi THEN hi ELSE x

Half == Scale \div 2
One == Scale
W_MAX == 2 * Scale
THETA_MIN == Scale \div 10
THETA_MAX == (3 * Scale) \div 2

----------------------------------------------------------------------------
(* The persisted state *)

_DEFAULT ==
    [w |-> <<(4 * Scale) \div 10, (3 * Scale) \div 10, (2 * Scale) \div 10, Scale \div 10>>,
     theta |-> Half,
     last_retrain_ts |-> 0]

\* What a file can hold besides a complete state.
Empty == [empty |-> TRUE]       \* created or truncated, nothing written yet
Corrupt == [corrupt |-> TRUE]   \* bytes that are no JSON document
Free == [free |-> TRUE]         \* no such inode

\* A complete state: the three fields, w with four numbers.
IsState(c) == DOMAIN c = {"w", "theta", "last_retrain_ts"} /\ DOMAIN c.w = 1..4

\* What json.load accepts: _read hands it on as it is.
IsJson(c) == c \notin {Empty, Corrupt, Free}

\* An update that writes the kwargs on top of the defaults.
MergeOntoDefault(s, k) ==
    [f \in DOMAIN s \cup DOMAIN k |-> IF f \in DOMAIN k THEN k[f] ELSE _DEFAULT[f]]

\* An update that drops the kwargs.
MergeNothing(s, k) == s

\* dict.update(kwargs)
Merge(s, k) ==
    [f \in DOMAIN s \cup DOMAIN k |-> IF f \in DOMAIN k THEN k[f] ELSE s[f]]

----------------------------------------------------------------------------
(* AMRC.adapt: the new weights and threshold *)

FDivBy(x, n) == IF IsNaN(x) THEN NaN ELSE x \div n

\* err and cst of adapt(); cost minutes are fixed-point minutes.
AdaptErr(outcome_error) == Clip(outcome_error, 0, One)
AdaptCst(outcome_cost_minutes) == Clip(FDivBy(outcome_cost_minutes, 30), 0, One)

\* adapt() that pushes the cost weight by the error.
AdaptWByError(w, err, cst, lr) ==
    <<Clip(FAdd(w[1], FMul(lr, err)), 0, W_MAX),
      Clip(FAdd(w[2], FMul(lr, err)), 0, W_MAX),
      Clip(FAdd(w[3], FMul(lr, err)), 0, W_MAX),
      Clip(FAdd(w[4], FMul(lr, cst)), 0, W_MAX)>>

AdaptW(w, err, cst, lr) ==
    <<Clip(FAdd(w[1], FMul(lr, err)), 0, W_MAX),
      Clip(FAdd(w[2], FMul(lr, err)), 0, W_MAX),
      Clip(FAdd(w[3], FMul(lr, cst)), 0, W_MAX),
      Clip(FAdd(w[4], FMul(lr, cst)), 0, W_MAX)>>

\* A theta that moves with the combined pressure, not against it.
AdaptThetaWithPressure(theta, err, cst, lr) ==
    Clip(FSub(theta, FMul(lr, FSub(FSub(Half, FMul(Half, err)), FMul(Half, cst)))),
         THETA_MIN, THETA_MAX)

AdaptTheta(theta, err, cst, lr) ==
    Clip(FAdd(theta, FMul(lr, FSub(FSub(Half, FMul(Half, err)), FMul(Half, cst)))),
         THETA_MIN, THETA_MAX)

\* The kwargs adapt() hands to StateStore.update().
AdaptKwargs(s, a, lr) ==
    [w |-> AdaptW(s.w, AdaptErr(a.err), AdaptCst(a.cost), lr),
     theta |-> AdaptTheta(s.theta, AdaptErr(a.err), AdaptCst(a.cost), lr)]

----------------------------------------------------------------------------
(* metrics.py and AMRC.decide: the signals and the decision *)

FMax(a, b) == IF a >= b THEN a ELSE b

\* What the reference-stats path holds: "missing", "notjson" (no JSON
\* document), "badschema" (JSON without usable columns) or "ok".
\* What the new-data path holds: "missing", "corrupt", "nocommon" (no column
\* of the reference), "same" (the reference's distribution) or "shifted".
\* What the probabilities path is: "none" (no path given), "missing",
\* "malformed" (rows genfromtxt cannot turn into a matrix), "nonnumeric" (a
\* header line or a cell that is no number, which genfromtxt reads as nan),
\* "uniform" (rows [0.5, 0.5]) or "certain" (rows [1.0, 0.0]).

\* load_reference_stats as each amrc.py calls it: the outcome is "raise" or
\* the kind of statistics decide() goes on with.
RefLoaded(variant, ref) ==
    IF ref = "missing"
    THEN (IF variant = "testrun" THEN "nocolumns" ELSE "raise")
    ELSE IF ref = "notjson" THEN "raise"
    ELSE IF ref = "badschema" THEN "nocolumns"
    ELSE "columns"

\* The Wasserstein distance between the new column and the sample that
\* np.random.normal draws (sample: which of the possible draws it was).
SampleDistance(new, sample) ==
    IF new = "shifted" THEN 2 * Scale + (sample - 1) * (Scale \div 10)
    ELSE (sample - 1) * (Scale \div 10)

\* drift_wasserstein
drift_wasserstein(loaded, new, sample) ==
    IF loaded = "columns" /\ new \in {"same", "shifted"}
    THEN Clip(SampleDistance(new, sample), 0, 10 * Scale)
    ELSE 0

\* Whether decide()'s reading of the probabilities raises (np.genfromtxt).
ProbsRaise(probs) == probs = "malformed"

\* entropy_from_probs over the matrix read: np.clip lets nan through
entropy_from_probs(probs) ==
    IF probs = "uniform" THEN One ELSE IF probs = "nonnumeric" THEN NaN ELSE 0

\* file_size_mb: 0 for a path that does not exist
file_size_mb(new, mb) == IF new = "missing" THEN 0 ELSE mb * Scale

\* estimate_cost_minutes, in fixed-point minutes
estimate_cost_minutes(dataset_mb) == FMax(dataset_mb \div 200, Scale \div 10)

\* The normalized cost signal; cost_per_min is fixed-point.
CostSignal(cost_min, cost_per_min) ==
    Clip((IF cost_per_min <= 0 THEN cost_min ELSE FMul(cost_min, cost_per_min)) \div 30,
         0, One)

\* A fatigue that grows with the time since the last retrain.
FatigueGrows(last_ts, clock, min_gap_minutes) ==
    IF last_ts <= 0 THEN 0
    ELSE Clip(((clock - last_ts) * Scale) \div min_gap_minutes, 0, One)

\* AMRC._fatigue; times in minutes, the result fixed-point.
Fatigue(last_ts, clock, min_gap_minutes) ==
    IF last_ts <= 0 THEN 0
    ELSE Clip((FMax(0, min_gap_minutes - (clock - last_ts)) * Scale) \div min_gap_minutes,
              0, One)

\* A score that adds the cost term.
ScoreAddsCost(w, sig, c) ==
    IF \E i \in 1..4 : IsNaN(w[i]) \/ IsNaN(sig[i]) THEN NaN
    ELSE w[1] * c.alpha * sig[1] + w[2] * c.beta * sig[2]
         + w[3] * c.gamma * sig[3] - w[4] * c.delta * sig[4]

\* The score, in units of 1/(2 * Scale^2): the scalers are in halves.
Score(w, sig, c) ==
    IF \E i \in 1..4 : IsNaN(w[i]) \/ IsNaN(sig[i]) THEN NaN
    ELSE w[1] * c.alpha * sig[1] + w[2] * c.beta * sig[2]
         - w[3] * c.gamma * sig[3] - w[4] * c.delta * sig[4]

Retrain(score, theta) == FGt(score, IF IsNaN(theta) THEN NaN ELSE 2 * Scale * theta)

\* The record decide() returns from the state s it read and its inputs.
DecisionRecord(s, a, sample, clock, c) ==
    LET loaded == RefLoaded(c.variant, a.ref)
        s1_raw == drift_wasserstein(loaded, a.new, sample)
        s1 == Clip(s1_raw \div 5, 0, One)
        s2 == IF a.probs \in {"none", "missing"} \/ ProbsRaise(a.probs)
              THEN 0 ELSE entropy_from_probs(a.probs)
        mb == file_size_mb(a.new, a.mb)
        cost_min == estimate_cost_minutes(mb)
        s3 == CostSignal(cost_min, c.cost_per_min)
        s4 == Fatigue(s.last_retrain_ts, clock, c.min_gap_minutes)
        sig == <<s1, s2, s3, s4>>
        R == Score(s.w, sig, c)
    IN  [kind |-> "decision",
         signals |-> sig,
         raw |-> [drift_wasserstein |-> s1_raw, data_mb |-> mb, cost_min |-> cost_min],
         weights |-> s.w,
         theta |-> s.theta,
         score |-> R,
         retrain |-> Retrain(R, s.theta)]

\* Whether the computation of decide() raises on these inputs: testrun/amrc.py
\* reads the probabilities inside a try of its own.
DecideRaises(a, c) ==
    \/ RefLoaded(c.variant, a.ref) = "raise"
    \/ c.variant = "meshops" /\ a.probs \notin {"none", "missing"} /\ ProbsRaise(a.probs)

\* AMRC._fallback_decision (testrun/amrc.py)
FallbackDecision ==
    [kind |-> "decision",
     signals |-> <<0, 0, 0, 0>>,
     raw |-> [drift_wasserstein |-> 0, data_mb |-> 0, cost_min |-> 0],
     weights |-> _DEFAULT.w,
     theta |-> _DEFAULT.theta,
     score |-> 0,
     retrain |-> FALSE]

----------------------------------------------------------------------------
(* Processes, threads, and the two files *)

Threads == {1, 2, 3}
Procs == {1, 2}

\* Threads 1 and 2 share a process, hence one StateStore and one lock.
ProcOf(t) == IF t = 3 THEN 2 ELSE 1

NInodes == 3
Inodes == 1..NInodes

\* StateStore._write's retry loop: range(5) and time.sleep(0.1).
Attempts == 5
RetrySleepMs == 100

RetNone == [kind |-> "return"]
Raised(e) == [kind |-> "raise", exc |-> e]
GotState(s) == [kind |-> "state", val |-> s]
NoCall == [by |-> 0]

\* What the state file holds; Free when there is no such file.
PathContent == IF dir.path = 0 THEN Free ELSE files[dir.path]

FreshInode == CHOOSE i \in Inodes : files[i] = Free /\ \A j \in 1..(i - 1) : files[j] # Free

\* The files with every inode that d and the descriptors f no longer name freed.
Collected(fs, d, f) ==
    [i \in Inodes |->
        IF i = d.path \/ i = d.tmp \/ (\E t \in Threads : f[t] = i) THEN fs[i] ELSE Free]

\* StateStore._read: json.load of the state file, or the exception it raises.
ReadResult ==
    IF IsJson(PathContent) THEN GotState(PathContent)
    ELSE IF PathContent = Free THEN Raised("FileNotFoundError")
    ELSE Raised("JSONDecodeError")

Active(t) == role[t] # {}

\* Inside _write (of update() or of the constructor).
InWrite(t) == pc[t] \in {"w_open", "w_dump", "w_move"}

\* Inside the with self._lock block of update().
InUpdate(t) == InWrite(t) /\ op[t] # "ctor"

\* The update() calls other threads have in flight, as (before, after) pairs.
InFlight(t) ==
    {<<hist.pre[u], st[u]>> : u \in {x \in Threads \ {t} : InUpdate(x)}}

\* An exception that reaches the caller of AMRC: testrun/amrc.py catches
\* everything in adapt() and mark_retrained().
Surfaced(t, e) ==
    IF cfg.variant = "testrun" /\ op[t] \in {"adapt", "mark"} THEN RetNone ELSE Raised(e)

\* Thread t may call o now; where the callers make a given number of calls
\* in all, some are left.
MayCall(t, o) ==
    /\ pc[t] = "idle"
    /\ o \in role[t]
    /\ "calls" \in DOMAIN quota => quota.calls > 0

\* One call more has been made.
CallCounted ==
    IF "calls" \in DOMAIN quota
    THEN quota' = [quota EXCEPT !.calls = @ - 1]
    ELSE UNCHANGED quota

\* The call goes on at p, with s read or to be written and the kwargs k.
Begins(t, o, a, p, s, k) ==
    /\ pc' = [pc EXCEPT ![t] = p]
    /\ op' = [op EXCEPT ![t] = o]
    /\ arg' = [arg EXCEPT ![t] = a]
    /\ st' = [st EXCEPT ![t] = s]
    /\ kw' = [kw EXCEPT ![t] = k]
    /\ UNCHANGED res

\* The call o of thread t returns (or raises) v; its locals are gone. c is
\* the history of the call: what it was given and what happened inside.
Returns(t, o, c, v) ==
    /\ pc' = [pc EXCEPT ![t] = "idle"]
    /\ op' = [op EXCEPT ![t] = "none"]
    /\ arg' = [arg EXCEPT ![t] = <<>>]
    /\ st' = [st EXCEPT ![t] = _DEFAULT]
    /\ kw' = [kw EXCEPT ![t] = <<>>]
    /\ res' = [by |-> t, op |-> o, val |-> v, ctx |-> c]

----------------------------------------------------------------------------
(* StateStore *)

\* History: the update() whose return was the latest return, if it was one.
JustUpdated == IF res.by # 0 /\ res.op = "update" THEN res.ctx ELSE NoCall

\* What get() needs of the lock: that no other thread holds it.
GetLockFree(t) == lock[ProcOf(t)] = 0

\* StateStore.get(): the read under the lock.
Get(t) ==
    /\ MayCall(t, "get")
    /\ store[ProcOf(t)] = "ok"
    /\ GetLockFree(t)
    /\ Returns(t, "get", [during |-> InFlight(t), after |-> JustUpdated], ReadResult)
    /\ CallCounted
    /\ UNCHANGED <<cfg, role, files, dir, now, store, lock, fd, attempt, slept, env,
                   hist>>

\* A caller's StateStore.update(**k).
StartUpdate(t, k) ==
    /\ MayCall(t, "update")
    /\ store[ProcOf(t)] = "ok"
    /\ Begins(t, "update", k, "upd", _DEFAULT, k)
    /\ CallCounted
    /\ UNCHANGED <<cfg, role, files, dir, now, store, lock, fd, attempt, slept, env,
                   hist>>

\* update() that also waits for every decide() of its process to finish, as
\* it would if decide() kept the lock while it computes.
UpdWaitsForDecide(t) ==
    /\ lock[ProcOf(t)] = 0
    /\ \A u \in Threads : ProcOf(u) = ProcOf(t) => pc[u] # "compute"

\* update() without the lock.
UpdUnlocked(t) == TRUE

\* What update() needs of the lock before it reads: that no other thread holds it.
UpdLockFree(t) == lock[ProcOf(t)] = 0

\* update(): take the lock, _read, st.update(kwargs).
UpdRead(t) ==
    /\ pc[t] = "upd"
    /\ UpdLockFree(t)
    /\ IF IsJson(PathContent)
       THEN /\ lock' = [lock EXCEPT ![ProcOf(t)] = t]
            /\ Begins(t, op[t], arg[t], "w_open", Merge(PathContent, kw[t]), kw[t])
            /\ hist' = [hist EXCEPT !.pre[t] = PathContent]
       ELSE /\ Returns(t, op[t], [kw |-> kw[t], out |-> "raised"],
                       Surfaced(t, ReadResult.exc))
            /\ UNCHANGED <<lock, hist>>
    /\ UNCHANGED <<cfg, role, files, dir, now, store, fd, attempt, slept, env, quota>>

\* _write that writes the state file in place.
WriteInPlace == "path"

\* The name _write opens for writing: the ".tmp" sibling of the state file.
WriteTarget == "tmp"

\* _write: open(tmp, "w") creates the file or truncates it.
WOpen(t) ==
    /\ pc[t] = "w_open"
    /\ LET i == IF dir[WriteTarget] # 0 THEN dir[WriteTarget] ELSE FreshInode
       IN  /\ files' = [files EXCEPT ![i] = Empty]
           /\ dir' = [dir EXCEPT ![WriteTarget] = i]
           /\ fd' = [fd EXCEPT ![t] = i]
    /\ pc' = [pc EXCEPT ![t] = "w_dump"]
    /\ UNCHANGED <<cfg, role, now, store, lock, op, arg, st, kw, attempt, slept, res, env,
                   quota, hist>>

\* What json.dump and the close leave in the file: the object, unless another
\* writer wrote to the same file since this one truncated it.
Dumped(t) ==
    IF files[fd[t]] = Empty THEN {st[t]} ELSE {st[t], Corrupt}

\* _write: json.dump(obj, f) and the end of the with block.
WDump(t) ==
    /\ pc[t] = "w_dump"
    /\ \E c \in Dumped(t) :
          LET f2 == [fd EXCEPT ![t] = 0]
          IN  /\ files' = Collected([files EXCEPT ![fd[t]] = c], dir, f2)
              /\ fd' = f2
    /\ pc' = [pc EXCEPT ![t] = "w_move"]
    /\ attempt' = [attempt EXCEPT ![t] = 0]
    /\ slept' = [slept EXCEPT ![t] = 0]
    /\ UNCHANGED <<cfg, role, dir, now, store, lock, op, arg, st, kw, res, env, quota, hist>>

\* What update() hands back to its caller after _write applied or skipped the
\* write: None either way.
UpdateReturn(outcome) == RetNone

\* The end of _write, and of the update() or the constructor that called it.
Finish(t, outcome, r) ==
    /\ Returns(t, op[t],
               [kw |-> kw[t], pre |-> hist.pre[t], out |-> outcome,
                slept |-> slept[t] + (IF outcome = "applied" THEN 0 ELSE RetrySleepMs)], r)
    /\ attempt' = [attempt EXCEPT ![t] = 0]
    /\ slept' = [slept EXCEPT ![t] = 0]
    /\ IF op[t] = "ctor"
       THEN /\ store' = [store EXCEPT ![ProcOf(t)] =
                            IF r.kind # "raise" THEN "ok"
                            ELSE IF cfg.variant = "testrun" THEN "none" ELSE "unbuilt"]
            /\ UNCHANGED lock
       ELSE /\ lock' = [lock EXCEPT ![ProcOf(t)] = 0]
            /\ UNCHANGED store
    /\ hist' = [hist EXCEPT
                   !.pre[t] = _DEFAULT,
                   !.applied = IF outcome # "applied" THEN @
                               ELSE IF op[t] = "ctor" THEN st[t] ELSE Merge(@, kw[t]),
                   !.crashed = FALSE]

\* _write: shutil.move(tmp, path) renames the temporary file onto the state file.
WMoveOk(t) ==
    /\ pc[t] = "w_move"
    /\ IF dir.tmp # 0
       THEN /\ dir' = [path |-> dir.tmp, tmp |-> 0]
            /\ files' = Collected(files, dir', fd)
            /\ Finish(t, "applied", UpdateReturn("applied"))
       ELSE /\ Finish(t, "raised", Surfaced(t, "FileNotFoundError"))
            /\ UNCHANGED <<files, dir>>
    /\ UNCHANGED <<cfg, role, now, fd, env, quota>>

\* _write that lets the last PermissionError through.
GiveUpRaises == "raise"

\* What _write does when the last attempt has failed too: "skip" (print the
\* warning and return).
Exhausted == "skip"

\* _write: shutil.move raises PermissionError (the path is locked by another
\* program); sleep, and give up after the last attempt.
WMoveFail(t) ==
    /\ pc[t] = "w_move"
    /\ IF attempt[t] + 1 < Attempts
       THEN /\ attempt' = [attempt EXCEPT ![t] = @ + 1]
            /\ slept' = [slept EXCEPT ![t] = @ + RetrySleepMs]
            /\ UNCHANGED <<pc, op, arg, res, st, kw, store, lock, hist>>
       ELSE IF Exhausted = "skip"
       THEN Finish(t, "skipped", UpdateReturn("skipped"))
       ELSE Finish(t, "raised", Surfaced(t, "PermissionError"))
    /\ UNCHANGED <<cfg, role, files, dir, now, fd, env, quota>>

\* A constructor that writes the defaults whether the state file exists or not.
CtorOverwrites(t) ==
    /\ pc[t] = "ctor"
    /\ Begins(t, "ctor", <<>>, "w_open", _DEFAULT, <<>>)
    /\ UNCHANGED <<cfg, role, files, dir, now, store, lock, fd, attempt, slept, env, quota,
                   hist>>

\* StateStore.__init__ (and AMRC.__init__ around it).
Ctor(t) ==
    /\ pc[t] = "ctor"
    /\ IF ~cfg.path_ok
       THEN /\ store' = [store EXCEPT ![ProcOf(t)] =
                            IF cfg.variant = "testrun" THEN "none" ELSE "unbuilt"]
            /\ Returns(t, "ctor", [out |-> "raised"],
                       IF cfg.variant = "testrun" THEN RetNone ELSE Raised("OSError"))
       ELSE IF dir.path # 0
       THEN /\ store' = [store EXCEPT ![ProcOf(t)] = "ok"]
            /\ Returns(t, "ctor", [out |-> "found"], RetNone)
       ELSE /\ Begins(t, "ctor", <<>>, "w_open", _DEFAULT, <<>>)
            /\ UNCHANGED store
    /\ UNCHANGED <<cfg, role, files, dir, now, lock, fd, attempt, slept, env, quota, hist>>

----------------------------------------------------------------------------
(* AMRC *)

\* What decide() returns or raises when it cannot produce a decision:
\* testrun/amrc.py turns every exception into the fallback decision.
DecideFailure(e) == IF cfg.variant = "testrun" THEN FallbackDecision ELSE Raised(e)

\* decide(): st = self.state.get()
DecideGet(t, a) ==
    /\ MayCall(t, "decide")
    /\ store[ProcOf(t)] \in {"ok", "none"}
    /\ store[ProcOf(t)] = "ok" => GetLockFree(t)
    /\ IF store[ProcOf(t)] = "none"
       THEN Returns(t, "decide", [arg |-> a], FallbackDecision)
       ELSE IF IsState(PathContent)
       THEN Begins(t, "decide", a, "compute", PathContent, <<>>)
       ELSE IF IsJson(PathContent)
       THEN Returns(t, "decide", [arg |-> a], DecideFailure("KeyError"))
       ELSE Returns(t, "decide", [arg |-> a, get |-> ReadResult.exc],
                    DecideFailure(ReadResult.exc))
    /\ CallCounted
    /\ UNCHANGED <<cfg, role, files, dir, now, store, lock, fd, attempt, slept, env,
                   hist>>

\* The draws np.random.normal can make, as far as the distance tells them apart.
NSamples == 2

\* decide() that stamps the state file while it computes.
DecideStamps(t) ==
    /\ files' = [files EXCEPT ![dir.path] = [@ EXCEPT !.last_retrain_ts = now + 1]]
    /\ dir' = dir

\* What decide() does to the two files while it computes: nothing.
DecideWrites(t) == UNCHANGED <<files, dir>>

\* decide(): the signals, the score and the record, computed outside any lock.
DecideCompute(t) ==
    /\ pc[t] = "compute"
    /\ \E sample \in 1..NSamples :
          LET r == IF DecideRaises(arg[t], cfg) THEN DecideFailure("InputError")
                   ELSE DecisionRecord(st[t], arg[t], sample, now, cfg)
          IN  Returns(t, "decide", [st |-> st[t], arg |-> arg[t]], r)
    /\ DecideWrites(t)
    /\ UNCHANGED <<cfg, role, now, store, lock, fd, attempt, slept, env, quota, hist>>

\* adapt(): st = self.state.get() and the new w and theta computed from it.
AdaptGet(t, a) ==
    /\ MayCall(t, "adapt")
    /\ store[ProcOf(t)] \in {"ok", "none"}
    /\ store[ProcOf(t)] = "ok" => GetLockFree(t)
    /\ IF store[ProcOf(t)] = "none"
       THEN Returns(t, "adapt", [arg |-> a, out |-> "raised"], RetNone)
       ELSE IF IsState(PathContent)
       THEN Begins(t, "adapt", a, "upd", PathContent, AdaptKwargs(PathContent, a, cfg.lr))
       ELSE IF IsJson(PathContent)
       THEN Returns(t, "adapt", [arg |-> a, out |-> "raised"],
                    IF cfg.variant = "testrun" THEN RetNone ELSE Raised("KeyError"))
       ELSE Returns(t, "adapt", [arg |-> a, out |-> "raised", get |-> ReadResult.exc],
                    IF cfg.variant = "testrun" THEN RetNone ELSE Raised(ReadResult.exc))
    /\ CallCounted
    /\ UNCHANGED <<cfg, role, files, dir, now, store, lock, fd, attempt, slept, env,
                   hist>>

\* mark_retrained(): self.state.mark_retrain_now(), which reads the clock and
\* calls update(last_retrain_ts=...).
MarkRetrained(t) ==
    /\ MayCall(t, "mark")
    /\ store[ProcOf(t)] \in {"ok", "none"}
    /\ IF store[ProcOf(t)] = "none"
       THEN Returns(t, "mark", [out |-> "raised"], RetNone)
       ELSE Begins(t, "mark", <<>>, "upd", _DEFAULT, [last_retrain_ts |-> now])
    /\ CallCounted
    /\ UNCHANGED <<cfg, role, files, dir, now, store, lock, fd, attempt, slept, env,
                   hist>>

----------------------------------------------------------------------------
(* The environment: the clock, and processes that die and start again *)

Tick ==
    /\ quota.ticks > 0
    /\ quota' = [quota EXCEPT !.ticks = @ - 1]
    /\ \E d \in env.ticks : now' = now + d
    /\ UNCHANGED <<cfg, role, files, dir, store, lock, pc, op, arg, st, kw, fd, attempt,
                   slept, res, env, hist>>

ThreadsOf(p) == {t \in Threads : ProcOf(t) = p /\ Active(t)}

\* What every thread of a dead process is left with.
Dead(p, f, v) == [t \in Threads |-> IF t \in ThreadsOf(p) THEN v ELSE f[t]]

\* The process dies while one of its threads is in _write: its threads stop
\* where they are, its descriptors close (what was not written yet is lost),
\* its lock is gone with it.
Crash(p) ==
    /\ \E t \in ThreadsOf(p) : InWrite(t)
    /\ pc' = Dead(p, pc, "dead")
    /\ op' = Dead(p, op, "none")
    /\ arg' = Dead(p, arg, <<>>)
    /\ fd' = Dead(p, fd, 0)
    /\ st' = Dead(p, st, _DEFAULT)
    /\ kw' = Dead(p, kw, <<>>)
    /\ attempt' = Dead(p, attempt, 0)
    /\ slept' = Dead(p, slept, 0)
    /\ files' = Collected(files, dir, fd')
    /\ lock' = [lock EXCEPT ![p] = 0]
    /\ store' = [store EXCEPT ![p] = "unbuilt"]
    /\ res' = NoCall
    /\ hist' = [hist EXCEPT !.crashed = TRUE, !.pre = Dead(p, @, _DEFAULT)]
    /\ UNCHANGED <<cfg, role, dir, now, env, quota>>

\* The process starts again: one thread constructs the controller on the same path.
Restart(p) ==
    /\ ThreadsOf(p) # {}
    /\ \A t \in ThreadsOf(p) : pc[t] = "dead"
    /\ LET main == CHOOSE t \in ThreadsOf(p) : \A u \in ThreadsOf(p) : t <= u
       IN  /\ pc' = [Dead(p, pc, "idle") EXCEPT ![main] = "ctor"]
           /\ op' = [op EXCEPT ![main] = "ctor"]
    /\ UNCHANGED <<cfg, role, files, dir, now, store, lock, arg, st, kw, fd, attempt, slept,
                   res, env, quota, hist>>

----------------------------------------------------------------------------
(* Specifications *)

ThreadStep(t) ==
    \/ Get(t)
    \/ \E k \in env.updates : StartUpdate(t, k)
    \/ UpdRead(t)
    \/ WOpen(t)
    \/ WDump(t)
    \/ WMoveOk(t)
    \/ WMoveFail(t)
    \/ Ctor(t)
    \/ \E a \in env.decides : DecideGet(t, a)
    \/ DecideCompute(t)
    \/ \E a \in env.adapts : AdaptGet(t, a)
    \/ MarkRetrained(t)

Next ==
    \/ \E t \in Threads : ThreadStep(t)
    \/ Tick
    \/ \E p \in Procs : Crash(p)
    \/ \E p \in Procs : Restart(p)

\* The state after the controller was constructed on a path without a state
\* file: the file holds the defaults.
Constructed(c, r, e, q) ==
    /\ cfg = c
    /\ role = r
    /\ env = e
    /\ quota = q
    /\ files = [i \in Inodes |-> IF i = 1 THEN _DEFAULT ELSE Free]
    /\ dir = [path |-> 1, tmp |-> 0]
    /\ now = e.clock
    /\ store = [p \in Procs |-> IF \E t \in Threads : ProcOf(t) = p /\ r[t] # {}
                                THEN "ok" ELSE "unbuilt"]
    /\ lock = [p \in Procs |-> 0]
    /\ pc = [t \in Threads |-> "idle"]
    /\ op = [t \in Threads |-> "none"]
    /\ arg = [t \in Threads |-> <<>>]
    /\ st = [t \in Threads |-> _DEFAULT]
    /\ kw = [t \in Threads |-> <<>>]
    /\ fd = [t \in Threads |-> 0]
    /\ attempt = [t \in Threads |-> 0]
    /\ slept = [t \in Threads |-> 0]
    /\ res = NoCall
    /\ hist = [applied |-> _DEFAULT,
               pre |-> [t \in Threads |-> _DEFAULT],
               crashed |-> FALSE]

\* A state file that is JSON but has no theta.
NoTheta == [w |-> _DEFAULT.w, last_retrain_ts |-> 0]

\* The state before the controller is constructed, on a path that holds
\* content (Free: no file): the first thread of each process is about to run
\* the constructor.
Unbuilt(c, r, e, q, content) ==
    /\ cfg = c
    /\ role = r
    /\ env = e
    /\ quota = q
    /\ files = [i \in Inodes |-> IF i = 1 THEN content ELSE Free]
    /\ dir = [path |-> IF content = Free THEN 0 ELSE 1, tmp |-> 0]
    /\ now = e.clock
    /\ store = [p \in Procs |-> "unbuilt"]
    /\ lock = [p \in Procs |-> 0]
    /\ pc = [t \in Threads |-> IF r[t] # {} THEN "ctor" ELSE "idle"]
    /\ op = [t \in Threads |-> IF r[t] # {} THEN "ctor" ELSE "none"]
    /\ arg = [t \in Threads |-> <<>>]
    /\ st = [t \in Threads |-> _DEFAULT]
    /\ kw = [t \in Threads |-> <<>>]
    /\ fd = [t \in Threads |-> 0]
    /\ attempt = [t \in Threads |-> 0]
    /\ slept = [t \in Threads |-> 0]
    /\ res = NoCall
    /\ hist = [applied |-> IF content = Free THEN _DEFAULT ELSE content,
               pre |-> [t \in Threads |-> _DEFAULT],
               crashed |-> FALSE]

\* AMRCConfig with its defaults, but for lr, which the caller sets; the
\* scalers are in halves (2 is 1.0), lr is fixed-point.
AMRCConfig(variant, lr) ==
    [variant |-> variant, alpha |-> 2, beta |-> 2, gamma |-> 2, delta |-> 2, lr |-> lr,
     min_gap_minutes |-> 30, cost_per_min |-> 0, path_ok |-> TRUE]

Variants == {"meshops", "testrun"}
AllOps == {"get", "update", "decide", "adapt", "mark"}

MaxTicks == 1

DecideArgs == [ref : {"ok"}, new : {"shifted"}, probs : {"none"}, mb : {0}]

\* What the callers pass in the concurrent scenarios: one value of each.
FewArgs ==
    [updates |-> {[theta |-> THETA_MIN]},
     adapts |-> {[err |-> One, cost |-> 30 * Scale]},
     decides |-> DecideArgs,
     ticks |-> {10},
     clock |-> 100]

\* The same with a second adapt() whose arguments are out of range on both
\* sides (an error of 2.0 and a cost of -30 minutes) and a decide() whose
\* reference statistics are no JSON document.
MoreArgs ==
    [FewArgs EXCEPT
        !.adapts = @ \cup {[err |-> 2 * One, cost |-> 0 - 30 * Scale]},
        !.decides = @ \cup {[ref |-> "notjson", new |-> "shifted", probs |-> "none", mb |-> 0]}]

\* The same with an adapt() whose error is float("nan").
NaNArgs ==
    [FewArgs EXCEPT !.adapts = @ \cup {[err |-> NaN, cost |-> 0]}]

Alone == [t \in Threads |-> IF t = 1 THEN AllOps ELSE {}]

\* One thread that calls everything, one call after the other.
Init ==
    \E v \in Variants :
        Constructed(AMRCConfig(v, One), Alone, MoreArgs, [ticks |-> MaxTicks])

Spec == Init /\ [][Next]_vars

\* One thread again, and callers that pass any float.
InitAnyArgs ==
    \E v \in Variants :
        Constructed(AMRCConfig(v, One), Alone, NaNArgs, [ticks |-> MaxTicks])

SpecAnyArgs == InitAnyArgs /\ [][Next]_vars

\* The few arguments, and a decide() whose reference statistics are no JSON
\* document.
PairArgs ==
    [FewArgs EXCEPT
        !.decides = @ \cup {[ref |-> "notjson", new |-> "shifted", probs |-> "none", mb |-> 0]}]

\* The few arguments, and a clock that advances by half of min_gap_minutes or
\* by all of it.
ClockArgs == [FewArgs EXCEPT !.ticks = {15, 30}]

\* One thread, and time passing between its calls.
InitClock ==
    \E v \in Variants :
        Constructed(AMRCConfig(v, One), Alone, ClockArgs, [ticks |-> MaxTicks])

SpecClock == InitClock /\ [][Next]_vars

\* The few arguments, and decide() calls whose reference statistics are
\* missing or are JSON without columns.
BootArgs ==
    [FewArgs EXCEPT
        !.decides = @ \cup [ref : {"missing", "badschema"}, new : {"shifted"},
                            probs : {"none"}, mb : {0}]]

\* What the path can hold when the controller is constructed.
BootFiles == {Free, Corrupt, NoTheta}

\* One thread constructs the controller, on a path that may be unusable, may
\* hold no state file, or one that is no JSON or no complete state.
InitBoot ==
    \E v \in Variants, ok \in BOOLEAN, content \in BootFiles :
        Unbuilt([AMRCConfig(v, One) EXCEPT !.path_ok = ok], Alone, BootArgs,
                [ticks |-> MaxTicks], content)

SpecBoot == InitBoot /\ [][Next]_vars

\* Two threads of one process, sharing its StateStore.
InitPair ==
    \E v \in Variants :
        Constructed(AMRCConfig(v, One),
                    [t \in Threads |-> IF t = 1 THEN AllOps \ {"mark"}
                                       ELSE IF t = 2 THEN {"mark"}
                                       ELSE {}],
                    PairArgs,
                    [ticks |-> MaxTicks])

SpecPair == InitPair /\ [][Next]_vars

\* Two threads of one process: one computes decisions, the other does the
\* rest.
InitCompute ==
    Constructed(AMRCConfig("meshops", One),
                [t \in Threads |-> IF t = 1 THEN AllOps \ {"decide"}
                                   ELSE IF t = 2 THEN {"decide"}
                                   ELSE {}],
                FewArgs,
                [ticks |-> MaxTicks])

SpecCompute == InitCompute /\ [][Next]_vars

\* The calls the callers make in all, where they make a given number.
MaxCalls == 3

\* The few arguments, and decide() on new-data and probability files of every
\* kind.
InputArgs ==
    [FewArgs EXCEPT
        !.decides = [ref : {"ok"},
                     new : {"missing", "corrupt", "nocommon", "shifted"},
                     probs : {"none", "missing", "malformed", "nonnumeric", "uniform"},
                     mb : {0}]]

\* One thread that makes a few calls, on inputs of every kind.
InitInputs ==
    \E v \in Variants :
        Constructed(AMRCConfig(v, One), Alone, InputArgs,
                    [ticks |-> MaxTicks, calls |-> MaxCalls])

SpecInputs == InitInputs /\ [][Next]_vars

\* The few arguments, and feedback of every kind: bad and costly, good and
\* cheap, a high error below and above 1.0 at no cost, a high cost at no
\* error, and an error and a cost that add up to 1.
FeedbackArgs ==
    [FewArgs EXCEPT
        !.adapts = @ \cup
                   {[err |-> 0, cost |-> 0],
                    [err |-> (4 * One) \div 5, cost |-> 0],
                    [err |-> 2 * One, cost |-> 0],
                    [err |-> 0, cost |-> 60 * Scale],
                    [err |-> Half, cost |-> 15 * Scale]}]

\* One thread that makes a few calls, with feedback of every kind.
InitFeedback ==
    \E v \in Variants :
        Constructed(AMRCConfig(v, One), Alone, FeedbackArgs,
                    [ticks |-> MaxTicks, calls |-> MaxCalls])

SpecFeedback == InitFeedback /\ [][Next]_vars

\* Two threads of one process on one controller: the second only adapts.
InitAdapters ==
    \E v \in Variants :
        Constructed(AMRCConfig(v, One),
                    [t \in Threads |-> IF t = 1 THEN AllOps
                                       ELSE IF t = 2 THEN {"adapt"}
                                       ELSE {}],
                    FewArgs,
                    [ticks |-> MaxTicks, calls |-> MaxCalls])

SpecAdapters == InitAdapters /\ [][Next]_vars

\* Two processes, each with a StateStore of its own on the same state file,
\* and both writing: they share no lock.
InitWriters ==
    Constructed(AMRCConfig("meshops", One),
                [t \in Threads |-> IF t = 1 THEN AllOps
                                   ELSE IF t = 3 THEN {"mark"}
                                   ELSE {}],
                FewArgs,
                [ticks |-> MaxTicks, calls |-> MaxCalls])

SpecWriters == InitWriters /\ [][Next]_vars

\* A writer, and a reader in another process with a StateStore of its own on
\* the same state file.
InitReader ==
    Constructed(AMRCConfig("meshops", One),
                [t \in Threads |-> IF t = 1 THEN AllOps \ {"get"}
                                   ELSE IF t = 3 THEN {"get"}
                                   ELSE {}],
                FewArgs,
                [ticks |-> MaxTicks])

SpecReader == InitReader /\ [][Next]_vars

----------------------------------------------------------------------------
(* The claims *)

UpdOps == {"update", "adapt", "mark"}

InRange(s) ==
    /\ \A i \in 1..4 : FLe(0, s.w[i]) /\ FLe(s.w[i], W_MAX)
    /\ FLe(THETA_MIN, s.theta) /\ FLe(s.theta, THETA_MAX)

\* C1: whatever arguments the adapt() calls were given, and whatever decide()
\* and mark_retrained() calls came in between, each of the four persisted
\* weights is within [0, 2] and the persisted theta within [0.1, 1.5].
C1_Clamping == IsState(PathContent) => InRange(PathContent)

\* No two threads of a process are inside the critical section of update().
Exclusive ==
    \A t, u \in Threads : InUpdate(t) /\ InUpdate(u) /\ ProcOf(t) = ProcOf(u) => t = u

\* Thread t's update() returns in this step.
UpdateReturns(t) == InUpdate(t) /\ pc'[t] = "idle"

\* C2 as stated: the critical sections of in-process update() calls never
\* interleave, and when an update() returns the state file holds the fields it
\* supplied on top of what the file held before (so, after two of them, the
\* fields of both, the later one's where they overlap).
C2_BothKept ==
    [][/\ Exclusive'
       /\ \A t \in Threads :
             UpdateReturns(t) => PathContent' = Merge(PathContent, kw[t])]_vars

\* C2 amended: the critical sections of in-process update() calls never
\* interleave; an update() that returns has either applied its fields on top
\* of what the file held or, its five renames having failed, left the file as
\* it was; the file always holds the fields of all applied updates, in the
\* order they were applied.
C2_AppliedKept ==
    [][/\ Exclusive'
       /\ \A t \in Threads :
             UpdateReturns(t) =>
                 PathContent' = IF res'.ctx.out = "applied"
                                THEN Merge(PathContent, kw[t]) ELSE PathContent
       /\ PathContent' = hist'.applied]_vars

\* mark_retrained() of thread 2 was applied on top of an adapt() of thread 1,
\* while thread 1 waits for the lock with its next adapt().
C2_Witness ==
    /\ pc[1] = "upd" /\ op[1] = "adapt"
    /\ res.by = 2 /\ res.op = "mark" /\ res.ctx.out = "applied"
    /\ res.ctx.pre.w # _DEFAULT.w
    /\ PathContent = Merge(res.ctx.pre, res.ctx.kw)

\* The latest return is that of a get().
GetReturned == res.by # 0 /\ res.op = "get"

\* C3: a get() that read while an update() was in flight returned a complete
\* state, and that state is the one before the update or the one after it,
\* never one with some of the update's fields and not the others.
C3_BeforeOrAfter ==
    GetReturned =>
        /\ res.val.kind = "state"
        /\ IsState(res.val.val)
        /\ \A u \in res.ctx.during : res.val.val \in {u[1], u[2]}

\* A get() returned while an update() changing both w and theta was in flight.
C3_Witness ==
    /\ GetReturned
    /\ \E u \in res.ctx.during :
          u[1].w # u[2].w /\ u[1].theta # u[2].theta /\ res.val = GotState(u[1])

\* C4: while a writer is in _write, and after its process died there, the
\* state file holds the complete state it held before; every get(), during
\* the write or after the crash, returns a complete state, after the crash the
\* one from before the write.
C4_CrashSafe ==
    /\ \A t \in Threads : InUpdate(t) => PathContent = hist.pre[t]
    /\ hist.crashed => IsState(PathContent) /\ PathContent = hist.applied
    /\ GetReturned =>
          /\ res.val.kind = "state" /\ IsState(res.val.val)
          /\ hist.crashed => res.val.val = hist.applied

\* The writer died with the temporary file opened and nothing written to it,
\* and a get() has returned since.
C4_Witness ==
    /\ hist.crashed
    /\ dir.tmp # 0 /\ files[dir.tmp] = Empty
    /\ GetReturned /\ res.val.kind = "state"

\* What the state s is after update(theta=x) and nothing else.
WithTheta(s, x) == [w |-> s.w, theta |-> x, last_retrain_ts |-> s.last_retrain_ts]

\* The latest return is that of a get() that followed the return of an
\* update(), with no other return and no crash in between.
GetAfterUpdate ==
    GetReturned /\ res.ctx.after # NoCall /\ res.ctx.after.out \in {"applied", "skipped"}

\* C5 as stated: a get() that follows the return of update(theta=X) returns
\* theta = X, and w and last_retrain_ts as they were before the update.
C5_RoundTrip ==
    GetAfterUpdate =>
        res.val = GotState(WithTheta(res.ctx.after.pre, res.ctx.after.kw.theta))

\* C5 amended: a get() that follows the return of update(theta=X) returns
\* theta = X and the other fields as before if the update was applied, and the
\* state as it was before the update if its five renames failed.
C5_RoundTripApplied ==
    GetAfterUpdate =>
        res.val = GotState(IF res.ctx.after.out = "applied"
                           THEN WithTheta(res.ctx.after.pre, res.ctx.after.kw.theta)
                           ELSE res.ctx.after.pre)

\* A get() followed an applied update(theta=X) that changed theta.
C5_Witness ==
    /\ GetAfterUpdate
    /\ res.ctx.after.out = "applied"
    /\ res.ctx.after.pre.theta # res.ctx.after.kw.theta
    /\ res.val.val.theta = res.ctx.after.kw.theta

\* The latest return is that of update(), adapt() or mark_retrained() coming
\* out of _write.
WriteReturned ==
    res.by # 0 /\ res.op \in UpdOps /\ res.ctx.out \in {"applied", "skipped"}

\* C6: _write tries the rename at most 5 times, 100 ms after each failure; a
\* failed attempt leaves the state file alone; when the fifth has failed,
\* update() returns without raising, nothing was renamed and the state file
\* holds what it held before; when an attempt succeeds, update() returns at
\* once and the state file holds the new state.
C6_BoundedRetry ==
    [][\A t \in Threads :
          /\ attempt'[t] < Attempts
          /\ pc'[t] = "w_move" => slept'[t] = attempt'[t] * RetrySleepMs
          /\ pc[t] = "w_move" /\ pc'[t] = "w_move" /\ attempt'[t] # attempt[t] =>
                 attempt'[t] = attempt[t] + 1 /\ PathContent' = PathContent
          /\ UpdateReturns(t) =>
                 /\ res'.val.kind = "return"
                 /\ IF dir' = dir
                    THEN /\ res'.ctx.out = "skipped"
                         /\ attempt[t] + 1 = Attempts
                         /\ res'.ctx.slept = Attempts * RetrySleepMs
                         /\ PathContent' = hist.pre[t]
                    ELSE /\ res'.ctx.out = "applied"
                         /\ res'.ctx.slept = attempt[t] * RetrySleepMs
                         /\ PathContent' = st[t]]_vars

\* An update that would have changed the state returned after five failed
\* renames, and the state file holds what it held before.
C6_Witness ==
    /\ WriteReturned
    /\ res.ctx.out = "skipped"
    /\ res.val = RetNone
    /\ res.ctx.slept = Attempts * RetrySleepMs
    /\ PathContent = res.ctx.pre
    /\ Merge(res.ctx.pre, res.ctx.kw) # res.ctx.pre

\* C7: what the caller of update(), adapt() or mark_retrained() gets back
\* tells a dropped update from an applied one.
C7_OutcomeReported ==
    WriteReturned /\ res.ctx.out = "skipped" => res.val # UpdateReturn("applied")

\* Thread t takes a step of decide(): its get(), its computation, or both.
DecideStep(t) ==
    \/ pc[t] = "idle" /\ pc'[t] = "compute"
    \/ pc[t] = "compute" /\ pc'[t] = "idle"
    \/ pc[t] = "idle" /\ pc'[t] = "idle" /\ res' # res /\ res'.by = t /\ res'.op = "decide"

\* C8: no step of decide(), whether the call returns a record or fails,
\* changes the state file (or any file); what an existing state file holds
\* changes only in the rename that ends an update(), be it called directly,
\* from adapt() or from mark_retrained().
C8_DecideReadOnly ==
    [][/\ \A t \in Threads :
             DecideStep(t) => PathContent' = PathContent /\ files' = files /\ dir' = dir
       /\ IsState(PathContent) /\ PathContent' # PathContent =>
             \E t \in Threads : UpdateReturns(t) /\ op[t] \in UpdOps]_vars

\* A decide() returned a record, another one on other inputs failed, and the
\* state file still holds what the call read.
C8_Witness ==
    /\ res.by # 0 /\ res.op = "decide" /\ "st" \in DOMAIN res.ctx
    /\ PathContent = res.ctx.st
    /\ IF cfg.variant = "meshops" THEN res.val.kind = "raise" ELSE res.val = FallbackDecision

\* C9: a decide() that follows a decide() with the same arguments, on the
\* same state file content, returns the same record.
C9_Idempotent ==
    [][\A t \in Threads :
          (/\ pc[t] = "compute" /\ pc'[t] = "idle"
           /\ res.by # 0 /\ res.op = "decide" /\ "st" \in DOMAIN res.ctx
           /\ res.ctx.st = st[t] /\ res.ctx.arg = arg[t])
          => res'.val = res.val]_vars

\* clamp of the specification, on finite fixed-point numbers.
Clamp(x, lo, hi) == IF x < lo THEN lo ELSE IF x > hi THEN hi ELSE x

\* What adapt(a.err, a.cost) is to write according to C10, from the state s.
C10_Update(s, a, lr) ==
    LET err == Clamp(a.err, 0, Scale)
        costNorm == Clamp(a.cost \div 30, 0, Scale)
        Times(x) == (lr * x) \div Scale
    IN  [w |-> <<Clamp(s.w[1] + Times(err), 0, 2 * Scale),
                 Clamp(s.w[2] + Times(err), 0, 2 * Scale),
                 Clamp(s.w[3] + Times(costNorm), 0, 2 * Scale),
                 Clamp(s.w[4] + Times(costNorm), 0, 2 * Scale)>>,
         theta |-> Clamp(s.theta + Times((Scale \div 2) - (err \div 2) - (costNorm \div 2)),
                         Scale \div 10, (3 * Scale) \div 2)]

\* C10: the w and theta adapt() hands to update() are those of the formula,
\* computed from the state file it read and its arguments; until its update
\* is applied the state file does not change, and then it holds the new w and
\* the new theta together, and the last_retrain_ts it held.
C10_AdaptUpdate ==
    [][\A t \in Threads :
          /\ pc[t] = "idle" /\ pc'[t] = "upd" /\ op'[t] = "adapt" =>
                 /\ st'[t] = PathContent
                 /\ kw'[t] = C10_Update(PathContent, arg'[t], cfg.lr)
          /\ InUpdate(t) /\ op[t] = "adapt" =>
                 IF UpdateReturns(t) /\ res'.ctx.out = "applied"
                 THEN PathContent' = [w |-> kw[t].w, theta |-> kw[t].theta,
                                      last_retrain_ts |-> PathContent.last_retrain_ts]
                 ELSE PathContent' = PathContent]_vars

\* An adapt() with out-of-range arguments was applied; it changed w and the
\* state file holds its w and its theta.
C10_Witness ==
    /\ WriteReturned /\ res.op = "adapt" /\ res.ctx.out = "applied"
    /\ res.ctx.kw.w # res.ctx.pre.w
    /\ res.ctx.kw.w[1] = W_MAX
    /\ PathContent.w = res.ctx.kw.w /\ PathContent.theta = res.ctx.kw.theta

\* The latest return is a record that decide() returned.
DecisionReturned == res.by # 0 /\ res.op = "decide" /\ res.val.kind = "decision"

\* The record r is consistent with itself: its score is that of its weights
\* and signals (in units of 1/(2 * Scale^2), the scalers being in halves), and
\* it says retrain exactly when the score is above its theta.
SelfConsistent(r) ==
    /\ r.score = r.weights[1] * cfg.alpha * r.signals[1]
                 + r.weights[2] * cfg.beta * r.signals[2]
                 - r.weights[3] * cfg.gamma * r.signals[3]
                 - r.weights[4] * cfg.delta * r.signals[4]
    /\ r.retrain = (r.score > 2 * Scale * r.theta)

Computes(t) ==
    /\ pc[t] = "compute" /\ pc'[t] = "idle"
    /\ res'.val.kind = "decision" /\ res'.val # FallbackDecision

\* The latest return is a record decide() computed from a state retrained at ts.
ComputedAt(ts) ==
    /\ DecisionReturned /\ res.val # FallbackDecision
    /\ res.ctx.st.last_retrain_ts = ts

\* C12: the fatigue in a record is 0 for a state never retrained, 1.0 when
\* the clock is still at last_retrain_ts, 0 when min_gap_minutes or more have
\* passed since, and not above the fatigue of the decide() before it on the
\* same last_retrain_ts.
C12_Fatigue ==
    [][\A t \in Threads :
          Computes(t) =>
              LET f == res'.val.signals[4]
                  ts == st[t].last_retrain_ts
              IN  /\ ts <= 0 => f = 0
                  /\ ts > 0 /\ now = ts => f = One
                  /\ ts > 0 /\ now - ts >= cfg.min_gap_minutes => f = 0
                  /\ ComputedAt(ts) => f <= res.val.signals[4]]_vars

\* After a mark_retrained() and min_gap_minutes, decide() returned fatigue 0.
C12_Witness ==
    \E ts \in 1..now :
        ComputedAt(ts) /\ now - ts >= cfg.min_gap_minutes /\ res.val.signals[4] = 0

\* C13: a decide() that read the state and was given reference statistics
\* that are missing, no JSON or JSON without columns raises: it returns no
\* record.
C13_RefRequired ==
    res.by # 0 /\ res.op = "decide" /\ "st" \in DOMAIN res.ctx /\ res.ctx.arg.ref # "ok"
        => res.val.kind = "raise"

\* C14: a decide() or adapt() whose get() failed raises the error of the get().
C14_GetErrorPropagates ==
    res.by # 0 /\ "get" \in DOMAIN res.ctx => res.val = Raised(res.ctx.get)

\* C15: decide() returns the constant fallback decision only when the
\* controller has no store since its construction, and the fallback decision
\* carries a flag that no normal record carries.
C15_FallbackOnlyAtInit ==
    DecisionReturned /\ res.val = FallbackDecision =>
        /\ store[ProcOf(res.by)] = "none"
        /\ "fallback" \in DOMAIN res.val

\* C16: a get() that returns, returns a complete state: w with four numbers,
\* theta and last_retrain_ts.
C16_GetValidates == GetReturned /\ res.val.kind = "state" => IsState(res.val.val)

\* C17: the first get() after a constructor that found no state file and
\* returned normally returns the defaults.
C17_DefaultsOnCreate ==
    [][\A t \in Threads :
          (/\ res.by # 0 /\ res.op = "ctor" /\ res.ctx.out \in {"applied", "skipped"}
           /\ pc[t] = "idle" /\ res'.by = t /\ res'.op = "get")
          => res'.val = GotState(_DEFAULT)]_vars

\* The state file changes in this step only if an update() returns in it.
OnlyUpdatesWrite ==
    PathContent' # PathContent => \E t \in Threads : UpdateReturns(t) /\ op[t] \in UpdOps

\* C18 as stated: when mark_retrained() returns, the state file holds the
\* time it read as last_retrain_ts and the w and theta it held; when adapt()
\* returns, it holds adapt()'s w and theta and the last_retrain_ts it held;
\* no step that is not the return of an update changes the state file.
C18_OwnFields ==
    [][/\ \A t \in Threads :
             /\ UpdateReturns(t) /\ op[t] = "mark" =>
                    PathContent' = [PathContent EXCEPT
                                       !.last_retrain_ts = kw[t].last_retrain_ts]
             /\ UpdateReturns(t) /\ op[t] = "adapt" =>
                    PathContent' = [PathContent EXCEPT !.w = kw[t].w, !.theta = kw[t].theta]
       /\ OnlyUpdatesWrite]_vars

\* C18 amended: the same when the update was applied; when it was dropped
\* after five failed renames, mark_retrained() and adapt() change no field.
C18_OwnFieldsApplied ==
    [][/\ \A t \in Threads :
             /\ UpdateReturns(t) /\ op[t] = "mark" =>
                    PathContent' = IF res'.ctx.out = "applied"
                                   THEN [PathContent EXCEPT
                                            !.last_retrain_ts = kw[t].last_retrain_ts]
                                   ELSE PathContent
             /\ UpdateReturns(t) /\ op[t] = "adapt" =>
                    PathContent' = IF res'.ctx.out = "applied"
                                   THEN [PathContent EXCEPT
                                            !.w = kw[t].w, !.theta = kw[t].theta]
                                   ELSE PathContent
       /\ OnlyUpdatesWrite]_vars

\* A mark_retrained() was applied to a state that an adapt() had changed: the
\* file holds the new last_retrain_ts and the w and theta from before.
C18_Witness ==
    /\ WriteReturned /\ res.op = "mark" /\ res.ctx.out = "applied"
    /\ res.ctx.pre.w # _DEFAULT.w /\ res.ctx.pre.theta # _DEFAULT.theta
    /\ res.ctx.pre.last_retrain_ts # res.ctx.kw.last_retrain_ts
    /\ PathContent = [res.ctx.pre EXCEPT !.last_retrain_ts = res.ctx.kw.last_retrain_ts]

\* Thread u is inside the update() of a call and can take its next step.
UpdateCanStep(u) ==
    ENABLED (UpdRead(u) \/ WOpen(u) \/ WDump(u) \/ WMoveOk(u) \/ WMoveFail(u))

\* C19: the lock is held only by a thread inside the read-modify-write of
\* update(); a thread computing the signals of decide() does not hold it; and
\* while a thread computes, every update() of its process (adapt()'s too) can
\* take its next step, from taking the lock to its return.
C19_ComputeHoldsNoLock ==
    /\ \A p \in Procs : lock[p] # 0 => InUpdate(lock[p]) /\ ProcOf(lock[p]) = p
    /\ \A t \in Threads : pc[t] = "compute" => lock[ProcOf(t)] # t
    /\ \A t, u \in Threads :
          pc[t] = "compute" /\ ProcOf(u) = ProcOf(t) /\ (pc[u] = "upd" \/ InUpdate(u))
              => UpdateCanStep(u)

\* While thread 2 computes on the state it read, an adapt() of thread 1 read
\* that same state, changed it and returned.
C19_Witness ==
    /\ pc[2] = "compute"
    /\ WriteReturned /\ res.by = 1 /\ res.op = "adapt" /\ res.ctx.out = "applied"
    /\ res.ctx.pre = st[2]
    /\ PathContent # st[2]

\* C20: with writers in two processes on one state file, the state file holds
\* a complete state at every moment, while the updates run and after they
\* have finished, and every get() returns a complete state.
C20_LastWriterWins ==
    /\ IsState(PathContent)
    /\ GetReturned => res.val.kind = "state" /\ IsState(res.val.val)

\* The latest return is that of a decide() that read a complete state and
\* went on to its signals.
DecideWentOn == res.by # 0 /\ res.op = "decide" /\ "st" \in DOMAIN res.ctx

\* C21: a decide() that read its state returns a DecisionRecord whatever the
\* probability file and the new-data file are; the entropy signal is 0 when
\* the probability file is absent or malformed, and the drift signal is 0
\* when the new-data file is absent, corrupt or shares no column with the
\* reference statistics.
C21_DegradationNotFatal ==
    DecideWentOn /\ res.ctx.arg.ref = "ok" =>
        /\ res.val.kind = "decision"
        /\ res.ctx.arg.probs \in {"missing", "malformed", "nonnumeric"}
              => res.val.signals[2] = 0
        /\ res.ctx.arg.new \in {"missing", "corrupt", "nocommon"}
              => res.val.signals[1] = 0

\* C23: every DecisionRecord that decide() returns has its four signals
\* within [0, 1].
C23_SignalsNormalized ==
    res.by # 0 /\ res.op = "decide" /\ res.val.kind = "decision" =>
        \A i \in 1..4 : FLe(0, res.val.signals[i]) /\ FLe(res.val.signals[i], One)

\* Thread t's adapt() returns in this step, its update applied.
AdaptApplies(t) ==
    /\ InUpdate(t) /\ op[t] = "adapt"
    /\ pc'[t] = "idle"
    /\ res'.ctx.out = "applied"

\* C22: an adapt() that returns has adapted the w and theta that were
\* persisted just before its write, so that adapt() calls of several threads
\* add up as if they had run one after the other.
C22_AdaptsAddUp ==
    [][\A t \in Threads :
          AdaptApplies(t) /\ IsState(hist.pre[t]) =>
              LET k == AdaptKwargs(hist.pre[t], arg[t], cfg.lr)
              IN  PathContent'.w = k.w /\ PathContent'.theta = k.theta]_vars

\* Thread t calls adapt() in this step and goes on to its update().
AdaptComputes(t) == pc[t] = "idle" /\ pc'[t] = "upd" /\ op'[t] = "adapt"

\* C24: with err and costNorm the clamped arguments of an adapt(), the theta
\* it hands to update() is lower than the one it read when err + costNorm > 1
\* (unless that was 0.1), higher when err + costNorm < 1 (unless that was
\* 1.5), the same when err + costNorm = 1, and never further than 0.5 * lr
\* from the one it read.
C24_ThetaDirection ==
    [][\A t \in Threads :
          AdaptComputes(t) =>
              LET old == PathContent.theta
                  new == kw'[t].theta
                  err == Clip(arg'[t].err, 0, One)
                  costNorm == Clip(FDivBy(arg'[t].cost, 30), 0, One)
                  sum == FAdd(err, costNorm)
              IN  /\ FGt(sum, One) => FGt(old, new) \/ old = THETA_MIN
                  /\ FGt(One, sum) => FGt(new, old) \/ old = THETA_MAX
                  /\ sum = One => new = old
                  /\ FLe(FSub(new, old), cfg.lr \div 2)
                  /\ FLe(FSub(old, new), cfg.lr \div 2)]_vars

\* Signal sets, each signal within [0, 1].
SignalSets == [1..4 -> {0, Half, One}]

\* score - theta of the state s on the signals sig, in the units of Score.
Margin(s, sig) == Score(s.w, sig, cfg) - 2 * Scale * s.theta

\* The feedback of adapt(): a high error at no cost, an error of 1.0 or more
\* at no cost, a high cost at no error.
HighError(a) == a.err > Half /\ a.cost = 0
FullError(a) == a.err >= One /\ a.cost = 0
HighCost(a) == a.cost > 15 * Scale /\ a.err = 0

\* The adapt() of thread t, applied in this step, leaves the margin of no
\* signal set lower, and what gave retrain gives it still.
MarginNotLower(t) ==
    \A sig \in SignalSets :
        /\ Margin(PathContent', sig) >= Margin(PathContent, sig)
        /\ Retrain(Score(PathContent.w, sig, cfg), PathContent.theta)
              => Retrain(Score(PathContent'.w, sig, cfg), PathContent'.theta)

\* The adapt() of thread t, applied in this step, leaves the margin of no
\* signal set higher, and what gave no retrain gives none still.
MarginNotHigher(t) ==
    \A sig \in SignalSets :
        /\ Margin(PathContent', sig) <= Margin(PathContent, sig)
        /\ Retrain(Score(PathContent'.w, sig, cfg), PathContent'.theta)
              => Retrain(Score(PathContent.w, sig, cfg), PathContent.theta)

\* C25: an adapt() with a high error and no cost lowers the margin
\* score - theta of no signal set, so that what gave retrain gives it still;
\* an adapt() with a high cost and no error raises the margin of none, so
\* that what gave no retrain gives none still.
C25_FeedbackEffect ==
    [][\A t \in Threads :
          AdaptApplies(t) =>
              /\ HighError(arg[t]) => MarginNotLower(t)
              /\ HighCost(arg[t]) => MarginNotHigher(t)]_vars

\* C25 as the code has it: the margin is not lowered by an adapt() whose
\* error is 1.0 or more (at no cost), and not raised by one with a high cost
\* (at no error).
C25_FeedbackEffectFullError ==
    [][\A t \in Threads :
          AdaptApplies(t) =>
              /\ FullError(arg[t]) => MarginNotLower(t)
              /\ HighCost(arg[t]) => MarginNotHigher(t)]_vars

\* An adapt() with an error of 1.0 or more and no cost was applied to the
\* default state: it raised the drift weight, left the cost weight and theta
\* alone, and a signal set that gave no retrain before gives retrain now.
C25_Witness ==
    /\ WriteReturned /\ res.op = "adapt" /\ res.ctx.out = "applied"
    /\ res.ctx.pre = _DEFAULT
    /\ res.ctx.kw.w[1] > res.ctx.pre.w[1]
    /\ res.ctx.kw.w[3] = res.ctx.pre.w[3]
    /\ res.ctx.kw.theta = res.ctx.pre.theta
    /\ IsState(PathContent) /\ PathContent.w = res.ctx.kw.w
    /\ \E sig \in SignalSets :
          /\ ~Retrain(Score(res.ctx.pre.w, sig, cfg), res.ctx.pre.theta)
          /\ Retrain(Score(PathContent.w, sig, cfg), PathContent.theta)

\* The state file after the step holds the w and theta of adapt()'s kwargs k
\* and the last_retrain_ts it held before the step.
AdaptKept(k) ==
    PathContent' = [w |-> k.w, theta |-> k.theta,
                    last_retrain_ts |-> PathContent.last_retrain_ts]

\* The state file after the step holds the last_retrain_ts of
\* mark_retrained()'s kwargs k and the w and theta it held before the step.
MarkKept(k) ==
    PathContent' = [w |-> PathContent.w, theta |-> PathContent.theta,
                    last_retrain_ts |-> k.last_retrain_ts]

\* C26: when an adapt() returns, the state file holds its w and theta and the
\* last_retrain_ts that was there, a concurrent mark_retrained()'s included;
\* when a mark_retrained() returns, the state file holds its last_retrain_ts
\* and the w and theta that were there, a concurrent adapt()'s included.
C26_NeitherLost ==
    [][\A t \in Threads :
          UpdateReturns(t) =>
              /\ op[t] = "adapt" => AdaptKept(kw[t])
              /\ op[t] = "mark" => MarkKept(kw[t])]_vars

\* C26 for the writes that were applied: an adapt() or mark_retrained() whose
\* five renames failed returns with the state file as it was.
C26_NeitherLostApplied ==
    [][\A t \in Threads :
          UpdateReturns(t) /\ op[t] \in {"adapt", "mark"} =>
              IF res'.ctx.out # "applied" THEN PathContent' = PathContent
              ELSE IF op[t] = "adapt" THEN AdaptKept(kw[t])
              ELSE MarkKept(kw[t])]_vars

\* A mark_retrained() of thread 2 was applied while the adapt() of thread 1 is
\* between its get(), which read the older last_retrain_ts, and its update().
C26_Witness ==
    /\ pc[1] = "upd" /\ op[1] = "adapt"
    /\ res.by = 2 /\ res.op = "mark" /\ res.ctx.out = "applied"
    /\ IsState(PathContent)
    /\ PathContent.last_retrain_ts = res.ctx.kw.last_retrain_ts
    /\ st[1].last_retrain_ts # PathContent.last_retrain_ts
    /\ kw[1].w # PathContent.w

\* C27: no step lowers a persisted weight, and a persisted weight of 2 stays
\* 2.
C27_WeightsMonotone ==
    [][IsState(PathContent) /\ IsState(PathContent') =>
          \A i \in 1..4 :
              /\ FLe(PathContent.w[i], PathContent'.w[i])
              /\ PathContent.w[i] = W_MAX => PathContent'.w[i] = W_MAX]_vars

\* The latest return is that of a constructor that found the state file.
CtorFound == res.by # 0 /\ res.op = "ctor" /\ res.ctx.out = "found"

\* C28: while a constructor runs on a path that has a state file, the state
\* file stays the file it is, with the content it has; such a constructor
\* returns normally, and the get() that follows its return returns the state
\* the updates applied before the restart had left.
C28_RestartDurable ==
    [][\A t \in Threads :
          /\ op[t] = "ctor" /\ dir.path # 0 =>
                 /\ dir'.path = dir.path /\ PathContent' = PathContent
                 /\ pc'[t] \in {"ctor", "idle", "dead"}
                 /\ pc'[t] = "idle" => CtorFound' /\ res'.val = RetNone
          /\ CtorFound /\ pc[t] = "idle" /\ res'.by = t /\ res'.op = "get" =>
                 res'.val = GotState(hist.applied)]_vars

\* The process was started again on a state file that an adapt() and a
\* mark_retrained() had changed, and its constructor has returned.
C28_Witness ==
    /\ CtorFound
    /\ hist.crashed
    /\ PathContent = hist.applied
    /\ PathContent.w # _DEFAULT.w
    /\ PathContent.last_retrain_ts # _DEFAULT.last_retrain_ts

\* The latest return is that of a constructor that found no state file, went
\* through its bootstrap write and returned normally.
CtorBootstrapped ==
    res.by # 0 /\ res.op = "ctor" /\ res.ctx.out \in {"applied", "skipped"}

\* C29: when the constructor has returned from its bootstrap write the state
\* file exists and holds a complete state, whatever the renames did; and a
\* state file that exists holds what the applied writes made it, nothing of a
\* dropped one.
C29_FileAfterCtor ==
    /\ CtorBootstrapped => dir.path # 0 /\ IsState(PathContent)
    /\ dir.path # 0 => PathContent = hist.applied

\* adapt(0, 0)
GoodOutcome == [err |-> 0, cost |-> 0]

\* From the step's state to the next the weights are the same and theta is
\* higher, or as it was at 1.5.
ThetaSaturates ==
    /\ PathContent'.w = PathContent.w
    /\ PathContent'.last_retrain_ts = PathContent.last_retrain_ts
    /\ IF PathContent.theta < THETA_MAX
       THEN PathContent.theta < PathContent'.theta /\ PathContent'.theta <= THETA_MAX
       ELSE PathContent'.theta = PathContent.theta

\* With the default weights and a theta of 0.7 or more no signal set gives
\* retrain.
NeverRetrains ==
    IsState(PathContent) /\ PathContent.w = _DEFAULT.w
    /\ PathContent.theta >= (7 * One) \div 10
        => \A sig \in SignalSets :
               ~Retrain(Score(PathContent.w, sig, cfg), PathContent.theta)

\* Thread t's adapt() returns in this step; err + costNorm was above 1.
PressureReturns(t) ==
    /\ UpdateReturns(t) /\ op[t] = "adapt"
    /\ Clamp(arg[t].err, 0, One) + Clamp(arg[t].cost \div 30, 0, One) > One

\* Of the controller's operations only an adapt() with err + costNorm > 1
\* lowers theta; the store's own update(theta=...) sets what it is given.
OnlyPressureLowers ==
    PathContent'.theta < PathContent.theta
        => \E t \in Threads :
               \/ PressureReturns(t)
               \/ UpdateReturns(t) /\ op[t] = "update" /\ "theta" \in DOMAIN kw[t]

====
